---- MODULE Spec2Model ----
(***************************************************************************)
(* Model of the query core of Wox:                                         *)
(*   - Wox/ui/ui_impl.go   : onUIRequest / handleQuery, the select loop    *)
(*     that streams result batches of the plugin layer to the UI;          *)
(*   - Wox/plugin/query.go : newQueryInputWithPlugins, the parser of a raw *)
(*     query into trigger keyword, command and search.                     *)
(* Strings of the parser are sequences of one-character strings.           *)
(***************************************************************************)
EXTENDS Integers, Sequences, FiniteSets, TLC

VARIABLES
    now,              \* wall clock, in seconds
    request,          \* request id -> the websocketRequest received, or NoRequest
    pc,               \* request id -> position of its handleQuery goroutine: "idle",
                      \*   "select", or returned at line 70/74 ("returned"),
                      \*   line 91 ("completed"), line 95 ("timedout")
    startTimestamp,   \* request id -> handleQuery's startTimestamp
    timerStart,       \* request id -> when the pending time.After was created
    totalResultCount, \* request id -> handleQuery's totalResultCount
    resultChan,       \* request id -> batches sent by the plugin layer, not yet received
    doneChan,         \* request id -> TRUE while a completion signal waits to be received
    produced,         \* request id -> number of batches the plugin layer has sent
    doneFired,        \* request id -> the plugin layer has fired the completion signal
    queryCalls,       \* request id -> number of calls of PluginManager.Query
    received,         \* request id -> history of the batches the loop received, in order
    responses,        \* history of the responses sent to the UI, in order
    rawQuery,         \* parser: the raw input
    pluginInstances,  \* parser: the registry snapshot
    parsed,           \* parser: the Query returned, or NoQuery
    cache,            \* result cache of the plugin manager: result id -> entry
    executed,         \* history of the action callbacks executed, in order
    hotkeys,          \* the main hotkeys registered by the UI manager
    queryResult,      \* ToUI: the QueryResult of a plugin
    resultUI          \* ToUI: the QueryResultUI returned, or NoResultUI

dispatchVars == <<now, request, pc, startTimestamp, timerStart, totalResultCount,
                  resultChan, doneChan, produced, doneFired, queryCalls,
                  received, responses>>
parserVars == <<rawQuery, pluginInstances, parsed>>
actionVars == <<executed, hotkeys>>
resultVars == <<queryResult, resultUI>>
vars == <<dispatchVars, parserVars, cache, actionVars, resultVars>>

----------------------------------------------------------------------------
(* Bounds *)

MaxTime == 13
MaxBatches == 3
ChanCap == 2

(* time.Second * 10, in seconds *)
QueryTimeout == 10

RequestIds == {"req1", "req2"}
NoRequest == [Id |-> "", Method |-> "", Params |-> <<>>]
QueryTexts == {"", "wpm"}
Batches == {<<>>, <<"r1">>, <<"r2">>}
NoResult == [Id |-> ""]
NoResultUI == [Id |-> ""]

----------------------------------------------------------------------------
(* Responses to the UI *)

responseUISuccessWithData(req, data) ==
    [Id |-> req.Id, Success |-> TRUE, Data |-> data]

responseUIError(req, msg) ==
    [Id |-> req.Id, Success |-> FALSE, Data |-> msg]

MutTimeoutMessage(query, req) == <<"query timeout", query>>

TimeoutMessage(query, req) == <<"query timeout", query, req.Id>>

----------------------------------------------------------------------------
(* handleQuery *)

MutHasParam(req, name) == TRUE

(* value, ok := request.Params[name]: ok *)
HasParam(req, name) == name \in DOMAIN req.Params

(* value, ok := request.Params[name]: value, the empty string for a missing key *)
ParamValue(req, name) == IF name \in DOMAIN req.Params THEN req.Params[name] ELSE ""

MutIsEmptyQuery(query) == FALSE

(* if query == "" *)
IsEmptyQuery(query) == query = ""

MutTimerDeadline(start, created) == start + QueryTimeout

(* time.After(time.Second * 10) is evaluated each time the select statement *)
(* is entered: the timer fires 10 s after that moment.                      *)
TimerDeadline(start, created) == created + QueryTimeout

InSelect(r) == pc[r] = "select"

TimerReady(r) == InSelect(r) /\ now >= TimerDeadline(startTimestamp[r], timerStart[r])

(* onUIRequest -> handleQuery, up to the first select or the return *)
HandleQuery(r, params) ==
    /\ pc[r] = "idle"
    /\ LET req == [Id |-> r, Method |-> "Query", Params |-> params] IN
       /\ request' = [request EXCEPT ![r] = req]
       /\ IF ~HasParam(req, "query")
          THEN /\ responses' = Append(responses,
                                  responseUIError(req, <<"query", "parameter not found">>))
               /\ pc' = [pc EXCEPT ![r] = "returned"]
               /\ UNCHANGED <<startTimestamp, timerStart, queryCalls>>
          ELSE IF IsEmptyQuery(ParamValue(req, "query"))
          THEN /\ responses' = Append(responses, responseUISuccessWithData(req, <<>>))
               /\ pc' = [pc EXCEPT ![r] = "returned"]
               /\ UNCHANGED <<startTimestamp, timerStart, queryCalls>>
          ELSE /\ startTimestamp' = [startTimestamp EXCEPT ![r] = now]
               /\ queryCalls' = [queryCalls EXCEPT ![r] = @ + 1]
               /\ timerStart' = [timerStart EXCEPT ![r] = now]
               /\ pc' = [pc EXCEPT ![r] = "select"]
               /\ UNCHANGED responses
    /\ UNCHANGED <<now, totalResultCount, resultChan, doneChan, produced, doneFired,
                   received, parserVars, cache, actionVars, resultVars>>

MutForwardShared(req, results) ==
    IF Len(results) = 0 THEN <<>>
    ELSE <<responseUISuccessWithData([Id |-> "req1"], results)>>

MutForward(req, results) ==
    IF Len(results) <= 1 THEN <<>> ELSE <<responseUISuccessWithData(req, results)>>

(* what a batch taken from resultChan adds to the responses *)
Forward(req, results) ==
    IF Len(results) = 0 THEN <<>> ELSE <<responseUISuccessWithData(req, results)>>

(* case results := <-resultChan *)
SelectResult(r) ==
    /\ InSelect(r)
    /\ resultChan[r] # <<>>
    /\ LET results == Head(resultChan[r]) IN
       /\ resultChan' = [resultChan EXCEPT ![r] = Tail(@)]
       /\ received' = [received EXCEPT ![r] = Append(@, results)]
       /\ totalResultCount' = [totalResultCount EXCEPT ![r] = @ + Len(results)]
       /\ responses' = responses \o Forward(request[r], results)
    \* both the continue and the fall-through re-enter the select: a new timer
    /\ timerStart' = [timerStart EXCEPT ![r] = now]
    /\ UNCHANGED <<now, request, pc, startTimestamp, doneChan, produced, doneFired,
                   queryCalls, parserVars, cache, actionVars, resultVars>>

MutSelectDone(r) ==
    /\ InSelect(r)
    /\ doneChan[r]
    /\ doneChan' = [doneChan EXCEPT ![r] = FALSE]
    /\ responses' = Append(responses, responseUISuccessWithData(request[r], <<>>))
    /\ UNCHANGED <<now, request, pc, startTimestamp, timerStart, totalResultCount,
                   resultChan, produced, doneFired, queryCalls, received, parserVars, cache, actionVars, resultVars>>

(* case <-doneChan *)
SelectDone(r) ==
    /\ InSelect(r)
    /\ doneChan[r]
    /\ doneChan' = [doneChan EXCEPT ![r] = FALSE]
    /\ responses' = Append(responses, responseUISuccessWithData(request[r], <<>>))
    /\ pc' = [pc EXCEPT ![r] = "completed"]
    /\ UNCHANGED <<now, request, startTimestamp, timerStart, totalResultCount,
                   resultChan, produced, doneFired, queryCalls, received, parserVars, cache, actionVars, resultVars>>

(* case <-time.After(time.Second * 10) *)
SelectTimeout(r) ==
    /\ TimerReady(r)
    /\ responses' = Append(responses,
            responseUIError(request[r],
                            TimeoutMessage(request[r].Params["query"], request[r])))
    /\ pc' = [pc EXCEPT ![r] = "timedout"]
    /\ UNCHANGED <<now, request, startTimestamp, timerStart, totalResultCount,
                   resultChan, doneChan, produced, doneFired, queryCalls, received,
                   parserVars, cache, actionVars, resultVars>>

----------------------------------------------------------------------------
(* handleAction *)

ResultIds == {"r1", "r2"}
ActionIds == {"open", "copy"}

(* the action lists plugins declare: a default marked, or none marked *)
ActionLists ==
    { <<[Id |-> "open", IsDefault |-> FALSE], [Id |-> "copy", IsDefault |-> TRUE]>>,
      <<[Id |-> "open", IsDefault |-> FALSE], [Id |-> "copy", IsDefault |-> FALSE]>>,
      <<[Id |-> "copy", IsDefault |-> FALSE]>> }

(* an action callback is named by the result and the action it belongs to *)
Callback(resultId, actionId) == [ResultId |-> resultId, ActionId |-> actionId]
NoAction == Callback("", "")

responseUISuccess(req) == [Id |-> req.Id, Success |-> TRUE, Data |-> <<>>]

(* the default action of a list: the one marked IsDefault, else the first *)
DefaultAction(actions) ==
    LET marked == {i \in 1..Len(actions) : actions[i].IsDefault}
    IN IF marked # {} THEN actions[CHOOSE i \in marked : \A j \in marked : i <= j]
       ELSE actions[1]

(* plugin.GetPluginManager().GetAction(resultId): nil for an id not cached *)
GetAction(resultId) ==
    IF resultId \notin DOMAIN cache THEN NoAction
    ELSE Callback(resultId, DefaultAction(cache[resultId].Actions).Id)

MutResolveAction(req) ==
    IF HasParam(req, "actionId") /\ ParamValue(req, "id") \in DOMAIN cache
    THEN Callback(ParamValue(req, "id"), ParamValue(req, "actionId"))
    ELSE GetAction(ParamValue(req, "id"))

(* action := plugin.GetPluginManager().GetAction(resultId): only the id *)
(* parameter of the request is read                                     *)
ResolveAction(req) == GetAction(ParamValue(req, "id"))

MutActionFound(action) == TRUE

(* if action == nil *)
ActionFound(action) == action # NoAction

(* onUIRequest -> handleAction *)
HandleAction(r, params) ==
    /\ pc[r] = "idle"
    /\ LET req == [Id |-> r, Method |-> "Action", Params |-> params]
           resultId == ParamValue(req, "id")
           action == ResolveAction(req)
       IN /\ request' = [request EXCEPT ![r] = req]
          /\ IF ~HasParam(req, "id")
             THEN /\ responses' = Append(responses,
                                     responseUIError(req, <<"id", "parameter not found">>))
                  /\ UNCHANGED executed
             ELSE IF ~ActionFound(action)
             THEN /\ responses' = Append(responses,
                         responseUIError(req, <<"action not found for result id", resultId>>))
                  /\ UNCHANGED executed
             ELSE /\ executed' = Append(executed, [Request |-> r, Action |-> action])
                  /\ responses' = Append(responses, responseUISuccess(req))
    /\ pc' = [pc EXCEPT ![r] = "returned"]
    /\ UNCHANGED <<now, startTimestamp, timerStart, totalResultCount, resultChan,
                   doneChan, produced, doneFired, queryCalls, received, parserVars,
                   cache, hotkeys, resultVars>>

----------------------------------------------------------------------------
(* handleRegisterMainHotkey *)

Hotkeys == {"ctrl+space", ""}
RegisterErrors == {"", "hotkey is unavailable"}

(* GetUIManager().RegisterMainHotkey(ctx, hotkey): registerErr is "" for nil *)
HandleRegisterMainHotkey(r, params, registerErr) ==
    /\ pc[r] = "idle"
    /\ LET req == [Id |-> r, Method |-> "RegisterMainHotkey", Params |-> params]
           hotkey == ParamValue(req, "hotkey")
       IN /\ request' = [request EXCEPT ![r] = req]
          /\ IF ~HasParam(req, "hotkey")
             THEN /\ responses' = Append(responses,
                                     responseUIError(req, <<"hotkey", "parameter not found">>))
                  /\ UNCHANGED hotkeys
             ELSE IF registerErr # ""
             THEN /\ responses' = Append(responses, responseUIError(req, <<registerErr>>))
                  /\ UNCHANGED hotkeys
             ELSE /\ hotkeys' = hotkeys \cup {hotkey}
                  /\ responses' = Append(responses, responseUISuccess(req))
    /\ pc' = [pc EXCEPT ![r] = "returned"]
    /\ UNCHANGED <<now, startTimestamp, timerStart, totalResultCount, resultChan,
                   doneChan, produced, doneFired, queryCalls, received, parserVars,
                   cache, executed, resultVars>>

----------------------------------------------------------------------------
(* Wox/plugin/query.go: QueryResult.ToUI *)

MaxInterval == 260

(* the QueryResult values of plugins: the refresh interval is any number *)
QueryResults ==
    [Id : {"r1"}, Score : {7}, ContextData : {"ctx"}, Actions : ActionLists,
     RefreshInterval : 0..MaxInterval]

(* lo.Map(q.Actions, ...): the callback is dropped, the other fields copied *)
ActionsToUI(actions) ==
    [i \in 1..Len(actions) |-> [Id |-> actions[i].Id, IsDefault |-> actions[i].IsDefault]]

(* func (q *QueryResult) ToUI() QueryResultUI: every field is copied *)
ToUI(q) ==
    [Id |-> q.Id, Score |-> q.Score, ContextData |-> q.ContextData,
     Actions |-> ActionsToUI(q.Actions), RefreshInterval |-> q.RefreshInterval]

(* one call of ToUI *)
CallToUI ==
    /\ resultUI = NoResultUI
    /\ resultUI' = ToUI(queryResult)
    /\ UNCHANGED <<queryResult, dispatchVars, parserVars, cache, actionVars>>

----------------------------------------------------------------------------
(* The plugin layer behind PluginManager.Query: it sends batches, empty or *)
(* not, and then fires the completion signal once.                         *)

(* the actions a plugin declares for its results *)
DeclaredActions(resultId) ==
    IF resultId = "r1"
    THEN <<[Id |-> "open", IsDefault |-> FALSE], [Id |-> "copy", IsDefault |-> TRUE]>>
    ELSE <<[Id |-> "open", IsDefault |-> FALSE], [Id |-> "copy", IsDefault |-> FALSE]>>

(* the QueryResultCache of a result of batch number batchNo of a query *)
CacheEntry(resultId, query, batchNo) ==
    [ResultId |-> resultId, Query |-> query, Batch |-> batchNo,
     Actions |-> DeclaredActions(resultId)]

Ids(batch) == {batch[i] : i \in 1..Len(batch)}

MutRecord(c, query, batch, batchNo) ==
    [id \in DOMAIN c \cup Ids(batch) |->
        IF id \in DOMAIN c THEN c[id] ELSE CacheEntry(id, query, batchNo)]

(* record: every result of the batch overwrites the entry of its id *)
Record(c, query, batch, batchNo) ==
    [id \in DOMAIN c \cup Ids(batch) |->
        IF id \in Ids(batch) THEN CacheEntry(id, query, batchNo) ELSE c[id]]

(* a plugin returns a batch: its results are recorded in the cache and the *)
(* batch is sent on resultChan                                             *)
PluginSendBatch(r, batch) ==
    /\ queryCalls[r] > 0
    /\ ~doneFired[r]
    /\ produced[r] < MaxBatches
    /\ Len(resultChan[r]) < ChanCap
    /\ cache' = Record(cache, ParamValue(request[r], "query"), batch, produced[r] + 1)
    /\ resultChan' = [resultChan EXCEPT ![r] = Append(@, batch)]
    /\ produced' = [produced EXCEPT ![r] = @ + 1]
    /\ UNCHANGED <<now, request, pc, startTimestamp, timerStart, totalResultCount,
                   doneChan, doneFired, queryCalls, received, responses, parserVars,
                   actionVars, resultVars>>

PluginDone(r) ==
    /\ queryCalls[r] > 0
    /\ ~doneFired[r]
    /\ doneFired' = [doneFired EXCEPT ![r] = TRUE]
    /\ doneChan' = [doneChan EXCEPT ![r] = TRUE]
    /\ UNCHANGED <<now, request, pc, startTimestamp, timerStart, totalResultCount,
                   resultChan, produced, queryCalls, received, responses, parserVars, cache, actionVars, resultVars>>

(* A select with a ready case does not wait: time passes only while every *)
(* loop is blocked.                                                        *)
SelectReady(r) ==
    InSelect(r) /\ (resultChan[r] # <<>> \/ doneChan[r] \/ TimerReady(r))

Tick ==
    /\ now < MaxTime
    /\ \A r \in RequestIds : ~SelectReady(r)
    /\ now' = now + 1
    /\ UNCHANGED <<request, pc, startTimestamp, timerStart, totalResultCount,
                   resultChan, doneChan, produced, doneFired, queryCalls, received,
                   responses, parserVars, cache, actionVars, resultVars>>

(* time passes by d seconds at once, never beyond the deadline of a pending timer *)
Advance(d) ==
    /\ now + d <= MaxTime
    /\ \A r \in RequestIds : ~SelectReady(r)
    /\ \A r \in RequestIds :
          InSelect(r) => now + d <= TimerDeadline(startTimestamp[r], timerStart[r])
    /\ now' = now + d
    /\ UNCHANGED <<request, pc, startTimestamp, timerStart, totalResultCount,
                   resultChan, doneChan, produced, doneFired, queryCalls, received,
                   responses, parserVars, cache, actionVars, resultVars>>

----------------------------------------------------------------------------
(* Wox/plugin/query.go: newQueryInputWithPlugins *)

MaxLen == 6

Chars == {"a", "b", " "}
RawQueries == UNION {[1..n -> Chars] : n \in 0..MaxLen}

(* Trigger keywords and commands of the plugin metadata are single tokens. *)
KeywordPool == {<<"a">>, <<"a", "b">>}
CommandPool == {<<"a">>, <<"b">>}
Instances == [TriggerKeywords : SUBSET KeywordPool, QueryCommands : SUBSET CommandPool]
Registries == {<<>>} \cup {<<i>> : i \in Instances} \cup (Instances \X Instances)

QueryTypeInput == "input"
NoQuery == [Type |-> "none"]

(* strings.Contains(s, " ") *)
ContainsSpace(s) == \E i \in 1..Len(s) : s[i] = " "

(* strings.Split(s, " "): one term more than there are spaces, empty terms kept *)
RECURSIVE Split(_)
Split(s) ==
    IF ~ContainsSpace(s) THEN <<s>>
    ELSE LET i == CHOOSE k \in 1..Len(s) :
                      s[k] = " " /\ \A j \in 1..(k - 1) : s[j] # " "
         IN <<SubSeq(s, 1, i - 1)>> \o Split(SubSeq(s, i + 1, Len(s)))

RECURSIVE MutJoin(_)
MutJoin(terms) ==
    IF Len(terms) = 0 THEN <<>>
    ELSE IF Len(terms) = 1 THEN terms[1]
    ELSE IF terms[1] = <<>> THEN MutJoin(Tail(terms))
    ELSE terms[1] \o <<" ">> \o MutJoin(Tail(terms))

(* strings.Join(terms, " ") *)
RECURSIVE Join(_)
Join(terms) ==
    IF Len(terms) = 0 THEN <<>>
    ELSE IF Len(terms) = 1 THEN terms[1]
    ELSE terms[1] \o <<" ">> \o Join(Tail(terms))

MutDeclaresTrigger(instance, keyword) == instance.TriggerKeywords # {}

(* lo.Contains(instance.GetTriggerKeywords(), possibleTriggerKeyword) *)
DeclaresTrigger(instance, keyword) == keyword \in instance.TriggerKeywords

MutFindIndex(instances, keyword) ==
    LET hits == {i \in 1..Len(instances) : DeclaresTrigger(instances[i], keyword)}
    IN IF hits = {} THEN 0 ELSE CHOOSE i \in hits : \A j \in hits : j <= i

(* lo.Find: the index of the first instance that declares the keyword, 0 if none *)
FindIndex(instances, keyword) ==
    LET hits == {i \in 1..Len(instances) : DeclaresTrigger(instances[i], keyword)}
    IN IF hits = {} THEN 0 ELSE CHOOSE i \in hits : \A j \in hits : i <= j

MutHasCommand(instance, possibleCommand) == TRUE

(* lo.ContainsBy(pluginInstance.GetQueryCommands(), item.Command == possibleCommand) *)
HasCommand(instance, possibleCommand) == possibleCommand \in instance.QueryCommands

MutMustContainSpaceAlways(query) == TRUE

MutMustContainSpaceTrimmed(query) ==
    \E i \in 1..Len(query) : query[i] = " " /\ \E j \in (i + 1)..Len(query) : query[j] # " "

(* var mustContainSpace = strings.Contains(query, " ") *)
MustContainSpace(query) == ContainsSpace(query)

MutCommandAndSearch(terms, instance) ==
    IF Len(terms) = 1 THEN [Command |-> <<>>, Search |-> <<>>]
    ELSE IF HasCommand(instance, terms[2])
    THEN [Command |-> terms[2], Search |-> Join(SubSeq(terms, 3, Len(terms)))]
    ELSE [Command |-> <<>>, Search |-> Join(SubSeq(terms, 2, Len(terms)))]

(* the routed branch, lines 186-209 *)
CommandAndSearch(terms, instance) ==
    IF Len(terms) = 1 THEN [Command |-> <<>>, Search |-> <<>>]
    ELSE IF Len(terms) = 2 THEN [Command |-> <<>>, Search |-> terms[2]]
    ELSE IF HasCommand(instance, terms[2])
    THEN [Command |-> terms[2], Search |-> Join(SubSeq(terms, 3, Len(terms)))]
    ELSE [Command |-> <<>>, Search |-> Join(SubSeq(terms, 2, Len(terms)))]

newQueryInputWithPlugins(query, instances) ==
    LET terms == Split(query) IN
    IF Len(terms) = 0
    THEN [Type |-> QueryTypeInput, RawQuery |-> query,
          TriggerKeyword |-> <<>>, Command |-> <<>>, Search |-> <<>>]
    ELSE LET possibleTriggerKeyword == terms[1]
             found == FindIndex(instances, possibleTriggerKeyword)
         IN IF found # 0 /\ MustContainSpace(query)
            THEN LET cs == CommandAndSearch(terms, instances[found])
                 IN [Type |-> QueryTypeInput, RawQuery |-> query,
                     TriggerKeyword |-> possibleTriggerKeyword,
                     Command |-> cs.Command, Search |-> cs.Search]
            ELSE [Type |-> QueryTypeInput, RawQuery |-> query,
                  TriggerKeyword |-> <<>>, Command |-> <<>>, Search |-> query]

(* func (q *Query) IsGlobalQuery() bool *)
IsGlobalQuery(q) == q.Type = QueryTypeInput /\ q.TriggerKeyword = <<>>

(* one call of the parser *)
Parse ==
    /\ parsed = NoQuery
    /\ parsed' = newQueryInputWithPlugins(rawQuery, pluginInstances)
    /\ UNCHANGED <<rawQuery, pluginInstances, dispatchVars, cache, actionVars, resultVars>>

----------------------------------------------------------------------------

ParamSets == {<<>>} \cup {[x \in {"query"} |-> q] : q \in QueryTexts}

InitDispatch ==
    /\ now = 0
    /\ request = [r \in RequestIds |-> NoRequest]
    /\ pc = [r \in RequestIds |-> "idle"]
    /\ startTimestamp = [r \in RequestIds |-> 0]
    /\ timerStart = [r \in RequestIds |-> 0]
    /\ totalResultCount = [r \in RequestIds |-> 0]
    /\ resultChan = [r \in RequestIds |-> <<>>]
    /\ doneChan = [r \in RequestIds |-> FALSE]
    /\ produced = [r \in RequestIds |-> 0]
    /\ doneFired = [r \in RequestIds |-> FALSE]
    /\ queryCalls = [r \in RequestIds |-> 0]
    /\ received = [r \in RequestIds |-> <<>>]
    /\ responses = <<>>

InitParserIdle ==
    /\ rawQuery = <<>>
    /\ pluginInstances = <<>>
    /\ parsed = NoQuery

InitOthersIdle ==
    /\ cache = <<>>
    /\ executed = <<>>
    /\ hotkeys = {}
    /\ queryResult = NoResult
    /\ resultUI = NoResultUI

Init == InitDispatch /\ InitParserIdle /\ InitOthersIdle

(* one request in flight *)
Next ==
    \/ \E params \in ParamSets : HandleQuery("req1", params)
    \/ SelectResult("req1")
    \/ SelectDone("req1")
    \/ SelectTimeout("req1")
    \/ \E batch \in Batches : PluginSendBatch("req1", batch)
    \/ PluginDone("req1")
    \/ Tick

Spec == Init /\ [][Next]_vars

(* the parser applied to every raw input and registry of the bounded sets *)
InitParser ==
    /\ InitDispatch
    /\ InitOthersIdle
    /\ rawQuery \in RawQueries
    /\ pluginInstances \in Registries
    /\ parsed = NoQuery

NextParser == Parse

SpecParser == InitParser /\ [][NextParser]_vars

(* Action, hotkey and malformed requests against a cache left by earlier queries *)
CacheEntries ==
    [ResultId : ResultIds, Query : {"wpm"}, Batch : {1}, Actions : ActionLists]
Caches ==
    {c \in UNION {[S -> CacheEntries] : S \in SUBSET ResultIds} :
        \A id \in DOMAIN c : c[id].ResultId = id}

ActionParamSets ==
    {<<>>} \cup {[x \in {"id"} |-> id] : id \in ResultIds}
           \cup {[x \in {"id", "actionId"} |-> IF x = "id" THEN id ELSE a] :
                    id \in ResultIds, a \in ActionIds}
           \cup {[x \in {"actionId"} |-> a] : a \in ActionIds}
HotkeyParamSets == {<<>>} \cup {[x \in {"hotkey"} |-> h] : h \in Hotkeys}
(* Query requests that start no dispatch *)
IdleQueryParamSets == {<<>>, [x \in {"query"} |-> ""], [x \in {"id"} |-> "r1"]}

InitAction ==
    /\ InitDispatch
    /\ InitParserIdle
    /\ cache \in Caches
    /\ executed = <<>>
    /\ hotkeys = {}
    /\ queryResult = NoResult
    /\ resultUI = NoResultUI

NextAction ==
    \E r \in RequestIds :
        \/ \E params \in ActionParamSets : HandleAction(r, params)
        \/ \E params \in HotkeyParamSets, err \in RegisterErrors :
               HandleRegisterMainHotkey(r, params, err)
        \/ \E params \in IdleQueryParamSets : HandleQuery(r, params)

SpecAction == InitAction /\ [][NextAction]_vars

(* ToUI applied to every QueryResult of the bounded set *)
InitResult ==
    /\ InitDispatch
    /\ InitParserIdle
    /\ cache = <<>>
    /\ executed = <<>>
    /\ hotkeys = {}
    /\ queryResult \in QueryResults
    /\ resultUI = NoResultUI

NextResult == CallToUI

SpecResult == InitResult /\ [][NextResult]_vars

(* two dispatches in flight at the same time; the clock moves in steps of 5 s *)
CoarseSteps == {5, 10}
MaxBatchesTwo == 1

NextTwo ==
    \/ \E r \in RequestIds :
          \/ HandleQuery(r, [x \in {"query"} |-> "wpm"])
          \/ SelectResult(r)
          \/ SelectDone(r)
          \/ SelectTimeout(r)
          \/ \E batch \in Batches :
                 produced[r] < MaxBatchesTwo /\ PluginSendBatch(r, batch)
          \/ PluginDone(r)
    \/ \E d \in CoarseSteps : Advance(d)

SpecTwo == Init /\ [][NextTwo]_vars

----------------------------------------------------------------------------
(* Vocabulary of the properties *)

ResponsesOf(r) == SelectSeq(responses, LAMBDA x : x.Id = r)

IsBatchResponse(x) == x.Success /\ x.Data # <<>>
IsEndOfStream(x) == x.Success /\ x.Data = <<>>
IsError(x) == ~x.Success
IsTerminal(x) == IsEndOfStream(x) \/ IsError(x)
IsNonEmpty(batch) == batch # <<>>

DataOf(rs) == [i \in 1..Len(rs) |-> rs[i].Data]

Dispatched(r) == queryCalls[r] > 0
LoopEnded(r) == pc[r] \in {"completed", "timedout"}

----------------------------------------------------------------------------
(* Properties of handleQuery, checked under Spec *)

(* C1, as stated: the timeout is a hard deadline from dispatch start. Once  *)
(* more than 10 s have passed since the dispatch started and the loop has   *)
(* not returned through the completion signal, it has returned with the     *)
(* timeout error.                                                           *)
C1_HardDeadline ==
    \A r \in RequestIds :
        (Dispatched(r) /\ pc[r] # "completed" /\ now > startTimestamp[r] + QueryTimeout)
            => pc[r] = "timedout"

(* C1, amended: the timeout is an idle timeout, re-armed each time the      *)
(* select is entered. The loop never waits more than 10 s after the later   *)
(* of dispatch start and the last batch received, and the timeout error is  *)
(* sent exactly 10 s after that moment, which can be later than 10 s after  *)
(* dispatch start.                                                          *)
C1_IdleTimeout ==
    \A r \in RequestIds :
        /\ InSelect(r) => now <= timerStart[r] + QueryTimeout
        /\ pc[r] = "timedout" =>
              /\ now >= timerStart[r] + QueryTimeout
              /\ Len(ResponsesOf(r)) > 0
              /\ IsError(ResponsesOf(r)[Len(ResponsesOf(r))])
        /\ (Dispatched(r) /\ received[r] = <<>>) => timerStart[r] = startTimestamp[r]

C1_Witness ==
    \E r \in RequestIds :
        /\ pc[r] = "timedout"
        /\ received[r] # <<>>
        /\ timerStart[r] > startTimestamp[r]
        /\ now > startTimestamp[r] + QueryTimeout

(* C2: the non-empty success responses of a dispatch are, in order and once *)
(* each, the non-empty batches the loop received; an empty batch received   *)
(* produces no response, so the only empty success response is the one of   *)
(* the completion signal.                                                   *)
C2_ForwardedInOrder ==
    \A r \in RequestIds :
        Dispatched(r) =>
            /\ DataOf(SelectSeq(ResponsesOf(r), IsBatchResponse))
                  = SelectSeq(received[r], IsNonEmpty)
            /\ Len(SelectSeq(ResponsesOf(r), IsEndOfStream))
                  = IF pc[r] = "completed" THEN 1 ELSE 0

C2_Witness ==
    \E r \in RequestIds :
        /\ received[r] = <<<<"r2">>, <<>>, <<"r1">>>>
        /\ DataOf(ResponsesOf(r)) = <<<<"r2">>, <<"r1">>>>

(* C3: a dispatch that has left the loop has sent exactly one terminal      *)
(* response, the end-of-stream success or the timeout error, and it is the  *)
(* last response of the request, also after later batches or a later        *)
(* completion signal; a dispatch still in the loop has sent none.           *)
C3_OneTerminal ==
    \A r \in RequestIds :
        Dispatched(r) =>
            LET rs == ResponsesOf(r)
                terminals == SelectSeq(rs, IsTerminal)
            IN /\ InSelect(r) => terminals = <<>>
               /\ LoopEnded(r) =>
                     /\ Len(terminals) = 1
                     /\ rs[Len(rs)] = terminals[1]
                     /\ pc[r] = "completed" <=> IsEndOfStream(terminals[1])
                     /\ pc[r] = "timedout" <=> IsError(terminals[1])

C3_Witness ==
    \E r \in RequestIds :
        /\ pc[r] = "timedout"
        /\ resultChan[r] # <<>>
        /\ doneChan[r]
        /\ received[r] # <<>>

(* C4: a dispatch that has received nothing, neither a batch nor the        *)
(* completion signal, more than 10 s after its start has sent exactly one   *)
(* response, the timeout error naming the query text and the request id,    *)
(* and keeps it so whatever arrives later.                                  *)
C4_TimeoutOnly ==
    \A r \in RequestIds :
        (/\ Dispatched(r)
         /\ received[r] = <<>>
         /\ pc[r] # "completed"
         /\ now > startTimestamp[r] + QueryTimeout)
            => /\ pc[r] = "timedout"
               /\ ResponsesOf(r) =
                     << [Id |-> r, Success |-> FALSE,
                         Data |-> <<"query timeout", request[r].Params["query"], r>>] >>

C4_Witness ==
    \E r \in RequestIds :
        /\ pc[r] = "timedout"
        /\ received[r] = <<>>
        /\ now > startTimestamp[r] + QueryTimeout
        /\ resultChan[r] # <<>>
        /\ Len(ResponsesOf(r)) = 1

(* C5: a request whose query parameter is the empty string gets exactly one *)
(* response, a success with an empty result list; PluginManager.Query is    *)
(* not called and the select loop is not entered.                           *)
C5_EmptyQuery ==
    \A r \in RequestIds :
        (HasParam(request[r], "query") /\ request[r].Params["query"] = "")
            => /\ pc[r] = "returned"
               /\ queryCalls[r] = 0
               /\ ResponsesOf(r) = << [Id |-> r, Success |-> TRUE, Data |-> <<>>] >>

C5_Witness ==
    \E r \in RequestIds :
        /\ HasParam(request[r], "query")
        /\ request[r].Params["query"] = ""
        /\ pc[r] = "returned"
        /\ now > 0

----------------------------------------------------------------------------
(* Properties of newQueryInputWithPlugins, checked under SpecParser *)

Returned == parsed.Type # "none"

DeclaredKeywords ==
    UNION {pluginInstances[i].TriggerKeywords : i \in 1..Len(pluginInstances)}
DeclaredCommands ==
    UNION {pluginInstances[i].QueryCommands : i \in 1..Len(pluginInstances)}

StartsWith(s, prefix) ==
    Len(s) >= Len(prefix) /\ SubSeq(s, 1, Len(prefix)) = prefix
After(s, prefix) == SubSeq(s, Len(prefix) + 1, Len(s))

NumSpaces(s) == Cardinality({i \in 1..Len(s) : s[i] = " "})

(* the part of s before its first space, all of s if it has none *)
FirstTerm(s) ==
    IF NumSpaces(s) = 0 THEN s
    ELSE SubSeq(s, 1, (CHOOSE i \in 1..Len(s) :
                          s[i] = " " /\ \A j \in 1..(i - 1) : s[j] # " ") - 1)

Owns(i, kw) == i \in 1..Len(pluginInstances) /\ kw \in pluginInstances[i].TriggerKeywords
FirstOwner(i, kw) == Owns(i, kw) /\ \A j \in 1..(i - 1) : ~Owns(j, kw)

(* C6, as stated: for "kw cmd rest" with cmd a declared command of some     *)
(* plugin instance that declares kw, the parse is (kw, cmd, rest).          *)
C6_CommandOfAnyOwner ==
    Returned =>
        \A kw \in DeclaredKeywords, cmd \in DeclaredCommands :
            LET prefix == kw \o <<" ">> \o cmd \o <<" ">> IN
            (/\ ~ContainsSpace(kw) /\ ~ContainsSpace(cmd)
             /\ StartsWith(rawQuery, prefix)
             /\ \E i \in 1..Len(pluginInstances) :
                    Owns(i, kw) /\ cmd \in pluginInstances[i].QueryCommands)
                => /\ parsed.TriggerKeyword = kw
                   /\ parsed.Command = cmd
                   /\ parsed.Search = After(rawQuery, prefix)

(* C6, amended: for "kw cmd rest" with cmd a declared command of the first  *)
(* plugin instance, in registry order, that declares kw, the parse is       *)
(* (kw, cmd, rest); rest may be empty or contain spaces.                    *)
C6_CommandOfFirstOwner ==
    Returned =>
        \A kw \in DeclaredKeywords, cmd \in DeclaredCommands :
            LET prefix == kw \o <<" ">> \o cmd \o <<" ">> IN
            (/\ ~ContainsSpace(kw) /\ ~ContainsSpace(cmd)
             /\ StartsWith(rawQuery, prefix)
             /\ \E i \in 1..Len(pluginInstances) :
                    FirstOwner(i, kw) /\ cmd \in pluginInstances[i].QueryCommands)
                => /\ parsed.TriggerKeyword = kw
                   /\ parsed.Command = cmd
                   /\ parsed.Search = After(rawQuery, prefix)

C6_Witness ==
    /\ Returned
    /\ Len(pluginInstances) = 2
    /\ Owns(1, <<"a">>) /\ Owns(2, <<"a">>)
    /\ <<"b">> \in pluginInstances[1].QueryCommands
    /\ <<"b">> \notin pluginInstances[2].QueryCommands
    /\ rawQuery = <<"a", " ", "b", " ", "b", " ">>
    /\ parsed.Command = <<"b">>
    /\ parsed.Search = <<"b", " ">>

(* C7: for "kw word" with exactly one space and kw a declared trigger       *)
(* keyword, the parse is (kw, "", word), also when word is a command of the *)
(* plugin that owns kw.                                                     *)
C7_TwoTermsNoCommand ==
    (Returned /\ NumSpaces(rawQuery) = 1 /\ FirstTerm(rawQuery) \in DeclaredKeywords)
        => /\ parsed.TriggerKeyword = FirstTerm(rawQuery)
           /\ parsed.Command = <<>>
           /\ parsed.Search = After(rawQuery, FirstTerm(rawQuery) \o <<" ">>)

C7_Witness ==
    /\ Returned
    /\ rawQuery = <<"a", " ", "b">>
    /\ \E i \in 1..Len(pluginInstances) :
           FirstOwner(i, <<"a">>) /\ <<"b">> \in pluginInstances[i].QueryCommands
    /\ parsed.Search = <<"b">>

(* C8: a raw input without a space is never routed: the parse is            *)
(* ("", "", raw input), also when the input is a declared trigger keyword.  *)
C8_NoSpaceNeverRouted ==
    (Returned /\ NumSpaces(rawQuery) = 0)
        => /\ parsed.TriggerKeyword = <<>>
           /\ parsed.Command = <<>>
           /\ parsed.Search = rawQuery

C8_Witness ==
    /\ Returned
    /\ rawQuery = <<"a", "b">>
    /\ rawQuery \in DeclaredKeywords
    /\ parsed.Search = rawQuery

(* C9: the parser returns for every input a Query of type input whose       *)
(* RawQuery is the input; for the empty input all fields are empty; when no *)
(* plugin instance declares the first term the query is global with         *)
(* TriggerKeyword = "", Command = "" and Search = the raw input.            *)
C9_TotalAndGlobalFallback ==
    Returned =>
        /\ parsed.Type = "input"
        /\ parsed.RawQuery = rawQuery
        /\ rawQuery = <<>> =>
              /\ parsed.TriggerKeyword = <<>>
              /\ parsed.Command = <<>>
              /\ parsed.Search = <<>>
        /\ FirstTerm(rawQuery) \notin DeclaredKeywords =>
              /\ parsed.TriggerKeyword = <<>>
              /\ parsed.Command = <<>>
              /\ parsed.Search = rawQuery
              /\ IsGlobalQuery(parsed)

C9_Witness ==
    /\ Returned
    /\ rawQuery = <<"b", " ", "a", " ", "b">>
    /\ <<"a">> \in DeclaredKeywords
    /\ <<"b">> \in DeclaredCommands
    /\ IsGlobalQuery(parsed)
    /\ parsed.Search = rawQuery

(* C10: for a declared trigger keyword followed by one trailing space and   *)
(* nothing else the parse is routed: (kw, "", "").                          *)
C10_TrailingSpaceRouted ==
    Returned =>
        \A kw \in DeclaredKeywords :
            rawQuery = kw \o <<" ">>
                => /\ parsed.TriggerKeyword = kw
                   /\ parsed.Command = <<>>
                   /\ parsed.Search = <<>>
                   /\ ~IsGlobalQuery(parsed)

C10_Witness ==
    /\ Returned
    /\ rawQuery = <<"a", "b", " ">>
    /\ <<"a", "b">> \in DeclaredKeywords
    /\ parsed.TriggerKeyword = <<"a", "b">>

----------------------------------------------------------------------------
(* Properties of handleAction and handleRegisterMainHotkey, under SpecAction *)

Handled(r, method) == pc[r] = "returned" /\ request[r].Method = method
ExecutedBy(r) == SelectSeq(executed, LAMBDA e : e.Request = r)

(* C11: an Action request with an id executes a callback iff the id is      *)
(* cached: an unknown id gets exactly one error naming the id, no callback  *)
(* and no success; a known id gets its callback run exactly once and        *)
(* exactly one success response, no error.                                  *)
C11_ActionIffCached ==
    \A r \in RequestIds :
        (Handled(r, "Action") /\ HasParam(request[r], "id")) =>
            LET id == request[r].Params["id"] IN
            /\ id \notin DOMAIN cache =>
                  /\ ExecutedBy(r) = <<>>
                  /\ ResponsesOf(r) =
                        << [Id |-> r, Success |-> FALSE,
                            Data |-> <<"action not found for result id", id>>] >>
            /\ id \in DOMAIN cache =>
                  /\ Len(ExecutedBy(r)) = 1
                  /\ ExecutedBy(r)[1].Action.ResultId = id
                  /\ ResponsesOf(r) = << [Id |-> r, Success |-> TRUE, Data |-> <<>>] >>

C11_Witness ==
    /\ Handled("req1", "Action") /\ Handled("req2", "Action")
    /\ HasParam(request["req1"], "id") /\ HasParam(request["req2"], "id")
    /\ request["req1"].Params["id"] \notin DOMAIN cache
    /\ request["req2"].Params["id"] \in DOMAIN cache
    /\ Len(executed) = 1

RanCachedAction(r) ==
    /\ Handled(r, "Action")
    /\ HasParam(request[r], "id")
    /\ request[r].Params["id"] \in DOMAIN cache

(* C12, as stated: the callback run is the one of the explicit action id   *)
(* when the request gives one (an action of the result), else the default. *)
C12_ExplicitActionRuns ==
    \A r \in RequestIds :
        RanCachedAction(r) =>
            LET acts == cache[request[r].Params["id"]].Actions IN
            (/\ HasParam(request[r], "actionId")
             /\ \E i \in 1..Len(acts) : acts[i].Id = request[r].Params["actionId"])
                => ExecutedBy(r)[1].Action.ActionId = request[r].Params["actionId"]

(* C12, amended: the callback run is the one of the action marked          *)
(* IsDefault, else of the first action in declaration order; the request's *)
(* action id is not read, so a request naming a non-default action runs    *)
(* the default one.                                                        *)
C12_DefaultActionRuns ==
    \A r \in RequestIds :
        RanCachedAction(r) =>
            LET acts == cache[request[r].Params["id"]].Actions
                ran == ExecutedBy(r)[1].Action.ActionId
            IN \/ \E i \in 1..Len(acts) : acts[i].IsDefault /\ acts[i].Id = ran
               \/ /\ \A i \in 1..Len(acts) : ~acts[i].IsDefault
                  /\ acts[1].Id = ran

C12_Witness ==
    \E r \in RequestIds :
        /\ RanCachedAction(r)
        /\ HasParam(request[r], "actionId")
        /\ request[r].Params["actionId"] = "open"
        /\ Len(cache[request[r].Params["id"]].Actions) = 2
        /\ cache[request[r].Params["id"]].Actions[2].IsDefault
        /\ ExecutedBy(r)[1].Action.ActionId = "copy"

RequiredParam(method) ==
    CASE method = "Query" -> "query"
      [] method = "Action" -> "id"
      [] method = "RegisterMainHotkey" -> "hotkey"

MissingParam(r) ==
    /\ pc[r] = "returned"
    /\ RequiredParam(request[r].Method) \notin DOMAIN request[r].Params

(* C14: a request without its required parameter gets exactly one response, *)
(* the error "<name> parameter not found", and nothing else happens:        *)
(* PluginManager.Query is not called, no callback runs, no hotkey is        *)
(* registered.                                                              *)
C14_MissingParameter ==
    /\ \A r \in RequestIds :
          MissingParam(r) =>
              /\ ResponsesOf(r) =
                    << [Id |-> r, Success |-> FALSE,
                        Data |-> <<RequiredParam(request[r].Method), "parameter not found">>] >>
              /\ queryCalls[r] = 0
              /\ ExecutedBy(r) = <<>>
    /\ hotkeys = {request[r].Params["hotkey"] :
                     r \in {x \in RequestIds :
                               /\ Handled(x, "RegisterMainHotkey")
                               /\ "hotkey" \in DOMAIN request[x].Params
                               /\ ResponsesOf(x)[1].Success}}

C14_Witness ==
    /\ MissingParam("req1") /\ request["req1"].Method = "Action"
    /\ HasParam(request["req1"], "actionId")
    /\ MissingParam("req2") /\ request["req2"].Method = "RegisterMainHotkey"
    /\ cache # <<>>

----------------------------------------------------------------------------
(* Properties of the result cache, under Spec *)

(* the batches the plugin layer has sent for r, in order *)
SentLog(r) == received[r] \o resultChan[r]

LastSendOf(r, id) ==
    LET log == SentLog(r)
        hits == {i \in 1..Len(log) : id \in Ids(log[i])}
    IN IF hits = {} THEN 0 ELSE CHOOSE i \in hits : \A j \in hits : j <= i

----------------------------------------------------------------------------
(* Properties of QueryResult.ToUI, under SpecResult *)

(* the multiples of 100 nearest to n *)
NearestHundreds(n) ==
    LET below == (n \div 100) * 100
        above == below + 100
    IN IF n % 100 = 0 THEN {n}
       ELSE IF n - below < above - n THEN {below}
       ELSE IF n - below > above - n THEN {above}
       ELSE {below, above}

(* C15: the RefreshInterval of the value ToUI returns is 0 when the plugin *)
(* set 0 and otherwise the multiple of 100 nearest to the plugin's value;  *)
(* it is always divisible by 100.                                          *)
C15_RefreshIntervalNormalized ==
    resultUI.Id # "" =>
        /\ resultUI.RefreshInterval % 100 = 0
        /\ queryResult.RefreshInterval = 0 => resultUI.RefreshInterval = 0
        /\ resultUI.RefreshInterval \in NearestHundreds(queryResult.RefreshInterval)

----------------------------------------------------------------------------
(* Properties of two concurrent dispatches, under SpecTwo *)

(* C17: two dispatches in flight are independent. The batch responses sent  *)
(* under a request are exactly the non-empty batches its own loop received; *)
(* what the plugin layer sent for a request is consumed by that request's   *)
(* loop only; a loop returns on its own completion signal or its own timer, *)
(* with its own request id in the response, and while it waits its own      *)
(* timer is never overdue, whatever the other dispatch does.                *)
C17_IndependentDispatches ==
    \A r \in RequestIds :
        Dispatched(r) =>
            LET rs == ResponsesOf(r)
                terminals == SelectSeq(rs, IsTerminal)
            IN /\ DataOf(SelectSeq(rs, IsBatchResponse)) = SelectSeq(received[r], IsNonEmpty)
               /\ produced[r] = Len(received[r]) + Len(resultChan[r])
               /\ pc[r] = "completed" <=> (doneFired[r] /\ ~doneChan[r])
               /\ pc[r] = "completed" => terminals = <<[Id |-> r, Success |-> TRUE, Data |-> <<>>]>>
               /\ pc[r] = "timedout" =>
                     /\ now >= timerStart[r] + QueryTimeout
                     /\ terminals = <<[Id |-> r, Success |-> FALSE,
                                      Data |-> <<"query timeout", "wpm", r>>]>>
               /\ InSelect(r) => (terminals = <<>> /\ now <= timerStart[r] + QueryTimeout)

C17_Witness ==
    /\ pc["req1"] = "timedout"
    /\ InSelect("req2")
    /\ received["req2"] = <<<<"r2">>>>
    /\ resultChan["req1"] = <<<<"r1">>>>
    /\ doneChan["req2"]
    /\ \E i, j \in 1..Len(responses) :
           i < j /\ responses[i].Id = "req1" /\ ~responses[i].Success
                 /\ responses[j].Id = "req2"

----------------------------------------------------------------------------
(* Further properties of newQueryInputWithPlugins, under SpecParser *)

SecondTerm(s) == FirstTerm(After(s, FirstTerm(s) \o <<" ">>))

----------------------------------------------------------------------------
(* Completion of a dispatch, under Spec *)

(* C19: no batch is lost at completion. The plugin layer sends every batch  *)
(* before it fires the completion signal, so when the loop has returned on  *)
(* that signal no non-empty batch is left unreceived on resultChan: the     *)
(* end-of-stream response is never sent while a sent batch is unforwarded.  *)
C19_NoBatchLostAtCompletion ==
    \A r \in RequestIds :
        pc[r] = "completed" =>
            \A i \in 1..Len(resultChan[r]) : resultChan[r][i] = <<>>

====
